---------------------------- MODULE Spec2Model ----------------------------
(***************************************************************************)
(* Model of src/Landmark_Classifier_AI/src/train.py: the three running-    *)
(* average loops (train_one_epoch, valid_one_epoch, one_epoch_test) and    *)
(* the epoch loop of optimize with its checkpoint rule.                    *)
(*                                                                         *)
(* Numbers.  The losses are Python floats.  A float is modelled as a       *)
(* record [k, n, d]: k = "fin" is the rational n/d in lowest terms         *)
(* (d > 0), k = "nan", "pinf", "ninf" are the IEEE special values, and     *)
(* k = "none" is Python's None (an unassigned local, valid_loss_min before *)
(* the first save).  Arithmetic on finite values is exact (rounding and    *)
(* overflow of the 53-bit mantissa are not modelled); arithmetic on the    *)
(* special values follows IEEE 754, and a division by zero raises          *)
(* ZeroDivisionError as Python's float division does.                      *)
(***************************************************************************)
EXTENDS Integers, Sequences, FiniteSets, TLC

(***************************************************************************)
(* Bounds of the model.                                                    *)
(***************************************************************************)
MaxEpochs == 3
MaxBatches == 2
MaxBatchSize == 1

---------------------------------------------------------------------------
(***************************************************************************)
(* Float values and their arithmetic.                                      *)
(***************************************************************************)
Abs(i) == IF i < 0 THEN -i ELSE i

RECURSIVE Gcd(_, _)
Gcd(a, b) == IF b = 0 THEN a ELSE Gcd(b, a % b)

None == [k |-> "none", n |-> 0, d |-> 1]
NaN  == [k |-> "nan",  n |-> 0, d |-> 1]
PInf == [k |-> "pinf", n |-> 0, d |-> 1]
NInf == [k |-> "ninf", n |-> 0, d |-> 1]

\* The rational n/d (d # 0) in lowest terms with a positive denominator.
Rat(n, d) ==
    LET s == IF d < 0 THEN -1 ELSE 1
        g == Gcd(Abs(n), Abs(d))
    IN  [k |-> "fin", n |-> (s * n) \div g, d |-> (s * d) \div g]

Fin(i) == Rat(i, 1)

IsFin(a) == a.k = "fin"
IsNaN(a) == a.k = "nan"
IsInf(a) == a.k \in {"pinf", "ninf"}

\* -1, 0 or 1 for a value that is not NaN.
Sign(a) ==
    CASE a.k = "pinf" -> 1
      [] a.k = "ninf" -> -1
      [] OTHER -> IF a.n > 0 THEN 1 ELSE IF a.n < 0 THEN -1 ELSE 0

InfOfSign(s) == IF s > 0 THEN PInf ELSE NInf

FNeg(a) ==
    CASE a.k = "fin"  -> Rat(-a.n, a.d)
      [] a.k = "pinf" -> NInf
      [] a.k = "ninf" -> PInf
      [] OTHER -> a

FAdd(a, b) ==
    CASE IsNaN(a) \/ IsNaN(b) -> NaN
      [] IsInf(a) /\ IsInf(b) -> IF a.k = b.k THEN a ELSE NaN
      [] IsInf(a) -> a
      [] IsInf(b) -> b
      [] OTHER -> Rat(a.n * b.d + b.n * a.d, a.d * b.d)

FSub(a, b) == FAdd(a, FNeg(b))

FMul(a, b) ==
    CASE IsNaN(a) \/ IsNaN(b) -> NaN
      [] IsInf(a) \/ IsInf(b) ->
            IF Sign(a) = 0 \/ Sign(b) = 0 THEN NaN
            ELSE InfOfSign(Sign(a) * Sign(b))
      [] OTHER -> Rat(a.n * b.n, a.d * b.d)

\* Python's float division: a zero divisor raises ZeroDivisionError whatever
\* the dividend is (also for nan and inf dividends).
DivRaises(b) == IsFin(b) /\ b.n = 0

\* a / b for a divisor that does not raise.
FDiv(a, b) ==
    CASE IsNaN(a) \/ IsNaN(b) -> NaN
      [] IsInf(a) /\ IsInf(b) -> NaN
      [] IsInf(a) -> InfOfSign(Sign(a) * Sign(b))
      [] IsInf(b) -> Fin(0)
      [] OTHER -> Rat(a.n * b.d, a.d * b.n)

\* a > b: False as soon as one side is NaN.
FGt(a, b) ==
    CASE IsNaN(a) \/ IsNaN(b) -> FALSE
      [] a.k = "pinf" -> b.k # "pinf"
      [] a.k = "ninf" -> FALSE
      [] b.k = "pinf" -> FALSE
      [] b.k = "ninf" -> TRUE
      [] OTHER -> a.n * b.d > b.n * a.d

---------------------------------------------------------------------------
(***************************************************************************)
(* Inputs: what loss(output, target).item() can give for a batch, and the  *)
(* values the model's parameters can take after an optimizer step.         *)
(***************************************************************************)
LossVals == {Fin(-197), Fin(197), Fin(200), NaN, PInf}

\* optimize only prints the training loss (line 93), so fewer values of it
\* are enumerated there than for a loop called on its own.
TrainLossVals(f) == IF f = "optimize" THEN {Fin(197), NaN} ELSE LossVals

ParamVals == {1, 2}

Functions == {"optimize", "train_one_epoch", "valid_one_epoch", "one_epoch_test"}

---------------------------------------------------------------------------
(***************************************************************************)
(* The pure steps of the code.                                             *)
(***************************************************************************)

\* A plausible slip: the running value is overwritten by the batch's loss.
UpdateAvgLastOnly(avg, batch_idx, loss_value) == loss_value

\* avg + ((1 / (batch_idx + 1)) * (loss_value - avg)), lines 38, 68, 148.
UpdateAvg(avg, batch_idx, loss_value) ==
    FAdd(avg, FMul(Rat(1, batch_idx + 1), FSub(loss_value, avg)))

\* The literal 0.01 of line 99.
Threshold == Rat(1, 100)

\* Line 99 raises ZeroDivisionError: valid_loss_min is a float equal to zero.
SaveCondRaises(valid_loss_min, valid_loss) ==
    valid_loss_min # None /\ DivRaises(valid_loss_min)

\* A plausible slip: the operands of the difference are swapped, so a loss
\* that rose by more than 1% saves.
SaveCondReversed(valid_loss_min, valid_loss) ==
    \/ valid_loss_min = None
    \/ FGt(FDiv(FSub(valid_loss, valid_loss_min), valid_loss_min), Threshold)

\* A plausible slip: the "is None" test is lost and the first epoch compares
\* against nothing, so it never saves.
SaveCondNoNone(valid_loss_min, valid_loss) ==
    /\ valid_loss_min # None
    /\ FGt(FDiv(FSub(valid_loss_min, valid_loss), valid_loss_min), Threshold)

\* Line 99, for operands on which it does not raise:
\* valid_loss_min is None or ((valid_loss_min - valid_loss) / valid_loss_min > 0.01)
SaveCond(valid_loss_min, valid_loss) ==
    \/ valid_loss_min = None
    \/ FGt(FDiv(FSub(valid_loss_min, valid_loss), valid_loss_min), Threshold)

\* A plausible slip: validation without torch.no_grad()/with an optimizer
\* step, so the batch leaves new parameters behind.
ParamsAfterValidBatchStepped(p, q) == q

\* Lines 53-68: under torch.no_grad() and model.eval(), with no optimizer
\* step, a validation batch leaves the parameters p as they are (q is what a
\* training step would have made of them).
ParamsAfterValidBatch(p, q) == p

\* The smaller of two losses as the history variable min_seen keeps it: None
\* stands for "no loss yet", and NaN for a minimum that is not defined
\* because a loss was not finite.
FMin(a, b) ==
    CASE a = None -> (IF IsFin(b) THEN b ELSE NaN)
      [] ~IsFin(a) \/ ~IsFin(b) -> NaN
      [] OTHER -> IF FGt(a, b) THEN b ELSE a

\* Line 105: scheduler.step(valid_loss).
SchedulerArg(train_loss, valid_loss) == valid_loss

---------------------------------------------------------------------------
(***************************************************************************)
(* State.                                                                  *)
(*                                                                         *)
(* fn            the function under call: optimize, or one of the loops    *)
(*               called on its own as the tests do                         *)
(* n_epochs      optimize's argument                                       *)
(* loader_len    len() of the train, valid and test loaders                *)
(* pc            the position in the code                                  *)
(* epoch         optimize's loop variable (0 before the first epoch)       *)
(* batch_idx     the number of batches the running loop has processed      *)
(* running_loss  the running loop's local train_loss/valid_loss/test_loss  *)
(* train_loss, valid_loss, valid_loss_min   optimize's locals              *)
(* params        the model's parameters (model.state_dict())               *)
(* training      the model's mode: TRUE after model.train(), FALSE after   *)
(*               model.eval()                                              *)
(* ckpt          the file at save_path: 0 when absent, else the parameters *)
(*               it holds                                                  *)
(* correct, total   one_epoch_test's counters                              *)
(* sched_count   the number of scheduler.step calls                        *)
(* sched_last    the argument of the last one (None before the first)      *)
(* ret           the value the last finished loop returned (None before)   *)
(*                                                                         *)
(* History variables, which the code does not hold:                        *)
(* train_end       the parameters when the last train_one_epoch returned   *)
(*                 (0 before)                                              *)
(* saves           the number of torch.save calls                          *)
(* saved_epoch     the epoch of the last torch.save call (0: none)         *)
(* saved_train_end train_end as it was at the last torch.save call         *)
(* saved_loss      the validation loss of the epoch of the last torch.save *)
(*                 call (None: none)                                       *)
(* min_seen        the minimum of the validation losses of the epochs      *)
(*                 whose checkpoint decision is over (FMin)                *)
(* batch_sum       the sum of the batch losses of the running loop         *)
(* batches_finite  whether all of them were finite                         *)
(***************************************************************************)
VARIABLES fn, n_epochs, loader_len, pc, epoch, batch_idx, running_loss,
          train_loss, valid_loss, valid_loss_min, params, training, ckpt,
          correct, total, sched_count, sched_last, ret,
          train_end, saves, saved_epoch, saved_train_end, saved_loss,
          min_seen, batch_sum, batches_finite

vars == <<fn, n_epochs, loader_len, pc, epoch, batch_idx, running_loss,
          train_loss, valid_loss, valid_loss_min, params, training, ckpt,
          correct, total, sched_count, sched_last, ret,
          train_end, saves, saved_epoch, saved_train_end, saved_loss,
          min_seen, batch_sum, batches_finite>>

callVars == <<fn, n_epochs, loader_len>>
optVars == <<epoch, train_loss, valid_loss, valid_loss_min, ckpt, sched_count,
             sched_last, train_end, saves, saved_epoch, saved_train_end,
             saved_loss, min_seen>>
testVars == <<correct, total>>
loopVars == <<batch_idx, running_loss, batch_sum, batches_finite>>

\* The loaders a call of f reads; the others are not touched and kept empty.
LoaderLens(f) ==
    {l \in [train : 0..MaxBatches, valid : 0..MaxBatches, test : 0..MaxBatches] :
        /\ (f \notin {"optimize", "train_one_epoch"} => l.train = 0)
        /\ (f \notin {"optimize", "valid_one_epoch"} => l.valid = 0)
        /\ (f # "one_epoch_test" => l.test = 0)}

\* The first statement of the call of f.
EntryPc(f) ==
    CASE f = "optimize" -> "epoch"
      [] f = "train_one_epoch" -> "train_enter"
      [] f = "valid_one_epoch" -> "valid_enter"
      [] f = "one_epoch_test" -> "test_enter"

Init ==
    /\ fn \in Functions
    /\ n_epochs \in (IF fn = "optimize" THEN 0..MaxEpochs ELSE {0})
    /\ loader_len \in LoaderLens(fn)
    /\ pc = EntryPc(fn)
    /\ epoch = 0
    /\ batch_idx = 0
    /\ running_loss = None
    /\ train_loss = None
    /\ valid_loss = None
    /\ valid_loss_min = None
    /\ params \in ParamVals
    /\ training = TRUE
    /\ ckpt = 0
    /\ correct = 0
    /\ total = 0
    /\ sched_count = 0
    /\ sched_last = None
    /\ ret = None
    /\ train_end = 0
    /\ saves = 0
    /\ saved_epoch = 0
    /\ saved_train_end = 0
    /\ saved_loss = None
    /\ min_seen = None
    /\ batch_sum = Fin(0)
    /\ batches_finite = TRUE

\* The bookkeeping of one batch, shared by the three loops: the running
\* average (lines 38, 68, 148) and the history of what was averaged.
BatchUpdate(loss_value) ==
    /\ running_loss' = UpdateAvg(running_loss, batch_idx, loss_value)
    /\ batch_idx' = batch_idx + 1
    /\ batch_sum' = FAdd(batch_sum, loss_value)
    /\ batches_finite' = (batches_finite /\ IsFin(loss_value))

\* The start of a loop: its running loss is 0.0 (lines 19, 52, 120) and
\* enumerate counts from 0.
LoopEnter ==
    /\ running_loss' = Fin(0)
    /\ batch_idx' = 0
    /\ batch_sum' = Fin(0)
    /\ batches_finite' = TRUE

(***************************************************************************)
(* optimize, lines 89-92: the head of the epoch loop.  With epochs left    *)
(* the next one starts with the call of train_one_epoch; with none left    *)
(* optimize returns.                                                       *)
(***************************************************************************)
EpochStart ==
    /\ pc = "epoch"
    /\ epoch < n_epochs
    /\ epoch' = epoch + 1
    /\ pc' = "train_enter"
    /\ UNCHANGED <<callVars, loopVars, testVars, train_loss, valid_loss,
                   valid_loss_min, params, training, ckpt, sched_count,
                   sched_last, ret, train_end, saves, saved_epoch,
                   saved_train_end, saved_loss, min_seen>>

OptimizeReturn ==
    /\ pc = "epoch"
    /\ epoch >= n_epochs
    /\ pc' = "done"
    /\ UNCHANGED <<callVars, optVars, loopVars, testVars, params, training, ret>>

(***************************************************************************)
(* train_one_epoch, lines 15-40.                                           *)
(***************************************************************************)
TrainEnter ==
    /\ pc = "train_enter"
    /\ training' = TRUE
    /\ LoopEnter
    /\ pc' = "train"
    /\ UNCHANGED <<callVars, optVars, testVars, params, ret>>

\* One batch: zero_grad, forward, loss, backward, optimizer.step (which
\* leaves some parameters q), and the running average.
TrainBatch ==
    /\ pc = "train"
    /\ batch_idx < loader_len.train
    /\ \E loss_value \in TrainLossVals(fn), q \in ParamVals :
          /\ params' = q
          /\ BatchUpdate(loss_value)
    /\ UNCHANGED <<callVars, optVars, testVars, pc, training, ret>>

TrainReturn ==
    /\ pc = "train"
    /\ batch_idx >= loader_len.train
    /\ ret' = running_loss
    /\ train_end' = params
    /\ IF fn = "optimize"
         THEN /\ train_loss' = running_loss
              /\ pc' = "valid_enter"
         ELSE /\ pc' = "done"
              /\ UNCHANGED train_loss
    /\ UNCHANGED <<callVars, loopVars, testVars, epoch, valid_loss,
                   valid_loss_min, params, training, ckpt, sched_count,
                   sched_last, saves, saved_epoch, saved_train_end,
                   saved_loss, min_seen>>

(***************************************************************************)
(* valid_one_epoch, lines 47-70.                                           *)
(***************************************************************************)
ValidEnter ==
    /\ pc = "valid_enter"
    /\ training' = FALSE
    /\ LoopEnter
    /\ pc' = "valid"
    /\ UNCHANGED <<callVars, optVars, testVars, params, ret>>

ValidBatch ==
    /\ pc = "valid"
    /\ batch_idx < loader_len.valid
    /\ \E loss_value \in LossVals, q \in ParamVals :
          /\ params' = ParamsAfterValidBatch(params, q)
          /\ BatchUpdate(loss_value)
    /\ UNCHANGED <<callVars, optVars, testVars, pc, training, ret>>

ValidReturn ==
    /\ pc = "valid"
    /\ batch_idx >= loader_len.valid
    /\ ret' = running_loss
    /\ IF fn = "optimize"
         THEN /\ valid_loss' = running_loss
              /\ pc' = "ckpt"
         ELSE /\ pc' = "done"
              /\ UNCHANGED valid_loss
    /\ UNCHANGED <<callVars, loopVars, testVars, epoch, train_loss,
                   valid_loss_min, params, training, ckpt, sched_count,
                   sched_last, train_end, saves, saved_epoch, saved_train_end,
                   saved_loss, min_seen>>

(***************************************************************************)
(* optimize, lines 99-102: the checkpoint decision.  The condition raises  *)
(* ZeroDivisionError when valid_loss_min is zero; otherwise a true         *)
(* condition saves the parameters and records the loss, and a false one    *)
(* does nothing.                                                           *)
(***************************************************************************)
Checkpoint ==
    /\ pc = "ckpt"
    /\ min_seen' = FMin(min_seen, valid_loss)
    /\ IF SaveCondRaises(valid_loss_min, valid_loss)
         THEN /\ pc' = "raised"
              /\ UNCHANGED <<ckpt, valid_loss_min, saves, saved_epoch,
                             saved_train_end, saved_loss>>
         ELSE /\ pc' = "sched"
              /\ IF SaveCond(valid_loss_min, valid_loss)
                   THEN /\ ckpt' = params
                        /\ valid_loss_min' = valid_loss
                        /\ saves' = saves + 1
                        /\ saved_epoch' = epoch
                        /\ saved_train_end' = train_end
                        /\ saved_loss' = valid_loss
                   ELSE UNCHANGED <<ckpt, valid_loss_min, saves, saved_epoch,
                                    saved_train_end, saved_loss>>
    /\ UNCHANGED <<callVars, loopVars, testVars, epoch, train_loss, valid_loss,
                   params, training, sched_count, sched_last, ret, train_end>>

(***************************************************************************)
(* optimize, line 105: scheduler.step(valid_loss), then back to the head   *)
(* of the loop.  (Lines 108-113 only log, and only with                    *)
(* interactive_tracking.)                                                  *)
(***************************************************************************)
SchedulerStep ==
    /\ pc = "sched"
    /\ sched_count' = sched_count + 1
    /\ sched_last' = SchedulerArg(train_loss, valid_loss)
    /\ pc' = "epoch"
    /\ UNCHANGED <<callVars, loopVars, testVars, epoch, train_loss, valid_loss,
                   valid_loss_min, params, training, ckpt, ret, train_end,
                   saves, saved_epoch, saved_train_end, saved_loss, min_seen>>

(***************************************************************************)
(* one_epoch_test, lines 120-160.                                          *)
(***************************************************************************)
TestEnter ==
    /\ pc = "test_enter"
    /\ training' = FALSE
    /\ LoopEnter
    /\ correct' = 0
    /\ total' = 0
    /\ pc' = "test"
    /\ UNCHANGED <<callVars, optVars, params, ret>>

\* One batch of size >= 1, of which n_correct predictions are right.
TestBatch ==
    /\ pc = "test"
    /\ batch_idx < loader_len.test
    /\ \E loss_value \in LossVals, size \in 1..MaxBatchSize :
          \E n_correct \in 0..size :
             /\ BatchUpdate(loss_value)
             /\ correct' = correct + n_correct
             /\ total' = total + size
    /\ UNCHANGED <<callVars, optVars, pc, params, training, ret>>

\* Lines 157-160: the accuracy print divides by total, which raises
\* ZeroDivisionError when no batch was seen; otherwise test_loss is returned.
TestReturn ==
    /\ pc = "test"
    /\ batch_idx >= loader_len.test
    /\ IF total = 0
         THEN /\ pc' = "raised"
              /\ UNCHANGED ret
         ELSE /\ pc' = "done"
              /\ ret' = running_loss
    /\ UNCHANGED <<callVars, optVars, loopVars, testVars, params, training>>

Next ==
    \/ EpochStart
    \/ OptimizeReturn
    \/ TrainEnter
    \/ TrainBatch
    \/ TrainReturn
    \/ ValidEnter
    \/ ValidBatch
    \/ ValidReturn
    \/ Checkpoint
    \/ SchedulerStep
    \/ TestEnter
    \/ TestBatch
    \/ TestReturn

Spec == Init /\ [][Next]_vars

---------------------------------------------------------------------------
(***************************************************************************)
(* Properties.                                                             *)
(***************************************************************************)
IsValue(a) ==
    /\ a.k \in {"none", "nan", "pinf", "ninf", "fin"}
    /\ a.n \in Int
    /\ a.d \in Nat \ {0}
    /\ (a.k # "fin" => a.n = 0 /\ a.d = 1)

TypeOK ==
    /\ fn \in Functions
    /\ n_epochs \in Nat
    /\ pc \in {"epoch", "train_enter", "train", "valid_enter", "valid", "ckpt",
               "sched", "test_enter", "test", "done", "raised"}
    /\ epoch \in 0..n_epochs
    /\ batch_idx \in Nat
    /\ \A a \in {running_loss, train_loss, valid_loss, valid_loss_min,
                 sched_last, ret, saved_loss, min_seen, batch_sum} : IsValue(a)
    /\ params \in ParamVals
    /\ ckpt \in ParamVals \cup {0}
    /\ training \in BOOLEAN
    /\ correct \in 0..total

\* The condition of line 99 evaluates to True: it does not raise, and
\* valid_loss_min is None or the relative drop exceeds 0.01.
CondTrue(m, v) ==
    \/ m = None
    \/ /\ ~DivRaises(m)
       /\ FGt(FDiv(FSub(m, v), m), Threshold)

Positive(a) == IsFin(a) /\ a.n > 0

\* A loop has just returned: ret is its value and the loop's history
\* variables still describe its batches.
JustReturned ==
    \/ fn = "optimize" /\ pc \in {"valid_enter", "ckpt"}
    \/ fn # "optimize" /\ pc = "done"

\* An epoch of optimize is complete: its scheduler step is over.
EpochComplete == fn = "optimize" /\ epoch >= 1 /\ pc \in {"epoch", "done"}

\* The checkpoint decision of the current epoch is over.
DecisionOver == fn = "optimize" /\ epoch >= 1 /\ pc \in {"sched", "epoch", "done"}

(***************************************************************************)
(* The recurrence of the three loops: after k >= 1 batches of finite loss  *)
(* the running loss is their arithmetic mean, and before the first batch   *)
(* it is 0.                                                                *)
(***************************************************************************)
RunningMeanInv ==
    (pc \in {"train", "valid", "test"} /\ batches_finite) =>
        running_loss = (IF batch_idx = 0 THEN Fin(0)
                        ELSE FDiv(batch_sum, Fin(batch_idx)))

(***************************************************************************)
(* The order of the steps of optimize: one scheduler step per completed    *)
(* epoch, fed that epoch's validation loss, and a return only after        *)
(* n_epochs epochs.                                                        *)
(***************************************************************************)
OrderInv ==
    fn = "optimize" =>
        /\ (pc \in {"epoch", "done"} => sched_count = epoch)
        /\ (pc \in {"train_enter", "train", "valid_enter", "valid", "ckpt",
                    "sched", "raised"} => epoch >= 1 /\ sched_count = epoch - 1)
        /\ (pc \in {"ckpt", "sched"} => valid_loss = ret)
        /\ (EpochComplete => sched_last = valid_loss)
        /\ (pc = "done" => epoch = n_epochs)

C2_SaveBeatsMinOfAllPrevious ==
    [][(pc = "ckpt" /\ epoch > 1 /\ saves' = saves + 1 /\ Positive(min_seen))
          => FGt(FDiv(FSub(min_seen, valid_loss), min_seen), Threshold)]_vars

(***************************************************************************)
(* C2, amended.  A save in an epoch after the first happens only when      *)
(* (m - valid_loss) / m > 0.01 for m the current valid_loss_min, which is  *)
(* the validation loss of the most recent epoch that saved.                *)
(***************************************************************************)
C2_SaveBeatsLastSaved ==
    [][(pc = "ckpt" /\ epoch > 1 /\ saves' = saves + 1)
          => /\ saved_epoch \in 1..(epoch - 1)
             /\ valid_loss_min = saved_loss
             /\ ~DivRaises(saved_loss)
             /\ FGt(FDiv(FSub(saved_loss, valid_loss), saved_loss), Threshold)]_vars

\* The third epoch saved although the second did not, all losses positive.
C2_Witness ==
    /\ pc = "sched" /\ saved_epoch = 3 /\ saves = 2
    /\ Positive(min_seen) /\ min_seen = valid_loss_min

(***************************************************************************)
(* C3, as claimed.  Every call of optimize that has returned has written   *)
(* a checkpoint: the file at save_path exists.                             *)
(***************************************************************************)
C3_ReturnedImpliesSaved ==
    (fn = "optimize" /\ pc = "done") => (saves >= 1 /\ ckpt # 0)

(***************************************************************************)
(* C3, amended.  The first checkpoint decision always saves, so once it is *)
(* over the file exists; every call of optimize with n_epochs >= 1 that    *)
(* has returned has written a checkpoint.                                  *)
(***************************************************************************)
C3_FirstEpochSaves ==
    /\ (fn = "optimize" /\ (DecisionOver \/ epoch >= 2))
          => (saves >= 1 /\ ckpt # 0)
    /\ (fn = "optimize" /\ pc = "done" /\ n_epochs >= 1)
          => (saves >= 1 /\ ckpt # 0)

\* optimize has returned from a call with one epoch, which saved.
C3_Witness == fn = "optimize" /\ pc = "done" /\ n_epochs = 1 /\ saves = 1

(***************************************************************************)
(* C4.  Each of the three loops keeps its running value equal to the       *)
(* arithmetic mean of the (finite) batch losses seen so far, and, called   *)
(* on its own, ends by returning that mean: 0 for an empty loader.         *)
(***************************************************************************)
C4_LoopReturnsMean ==
    /\ RunningMeanInv
    /\ (fn # "optimize" /\ pc \in {"done", "raised"} /\ batches_finite)
          => /\ pc = "done"
             /\ ret = (IF batch_idx = 0 THEN Fin(0)
                       ELSE FDiv(batch_sum, Fin(batch_idx)))

(***************************************************************************)
(* C5, as claimed.  The value a loop returns is never NaN and always       *)
(* finite.                                                                 *)
(***************************************************************************)
C5_ReturnedLossFinite == ret # None => IsFin(ret)

(***************************************************************************)
(* C5, amended.  The value a loop returns is finite exactly when every     *)
(* batch loss of that call was finite; a NaN or infinite batch loss comes  *)
(* back as a NaN or infinite return value.  This holds for every call,     *)
(* also of the later epochs.                                               *)
(***************************************************************************)
C5_ReturnedLossFiniteIffBatches ==
    JustReturned => (ret # None /\ (IsFin(ret) <=> batches_finite))

\* The validation loop of the second epoch has returned NaN.
C5_Witness == pc = "ckpt" /\ epoch = 2 /\ IsNaN(ret) /\ ~batches_finite

(***************************************************************************)
(* C6, as claimed.  After every completed epoch valid_loss_min is the      *)
(* minimum of the validation losses seen so far.  Stated for positive      *)
(* losses.                                                                 *)
(***************************************************************************)
C6_MinIsMinOfAll ==
    (EpochComplete /\ Positive(min_seen)) => valid_loss_min = min_seen

(***************************************************************************)
(* C6, amended.  After every completed epoch e valid_loss_min is the       *)
(* validation loss of the most recent epoch that saved, one of the epochs  *)
(* 1..e; it need not be the minimum, but when all losses so far are        *)
(* positive it is no smaller than the minimum m and not more than 1% above *)
(* it: not (valid_loss_min - m) / valid_loss_min > 0.01.                   *)
(***************************************************************************)
C6_MinIsLastSaved ==
    EpochComplete =>
        /\ saved_epoch \in 1..epoch
        /\ valid_loss_min = saved_loss
        /\ Positive(min_seen) =>
              /\ ~FGt(min_seen, valid_loss_min)
              /\ ~FGt(FDiv(FSub(valid_loss_min, min_seen), valid_loss_min),
                      Threshold)

\* Two epochs are complete, the second was better than the first by less
\* than 1% and did not save.
C6_Witness ==
    /\ EpochComplete /\ epoch = 2 /\ saved_epoch = 1
    /\ Positive(min_seen) /\ FGt(valid_loss_min, min_seen)

(***************************************************************************)
(* C7.  Every save after the first happens in an epoch whose validation    *)
(* loss is strictly smaller than the current valid_loss_min, whatever the  *)
(* sign and magnitude of the (finite) losses.                              *)
(***************************************************************************)
C7_SaveOnlyOnDecrease ==
    [][(pc = "ckpt" /\ saves >= 1 /\ saves' = saves + 1
           /\ IsFin(valid_loss_min) /\ IsFin(valid_loss))
          => FGt(valid_loss_min, valid_loss)]_vars

(***************************************************************************)
(* C8.  optimize runs exactly n_epochs epochs, each of them training,      *)
(* validation, checkpoint decision and exactly one scheduler step fed that *)
(* epoch's validation loss, in this order: it stops only by returning,     *)
(* after n_epochs scheduler steps.                                         *)
(***************************************************************************)
C8_EpochsInOrder ==
    /\ OrderInv
    /\ (fn = "optimize" /\ pc \in {"done", "raised"})
          => (pc = "done" /\ epoch = n_epochs /\ sched_count = n_epochs)

(***************************************************************************)
(* C9.  Once a checkpoint is written, the file holds the parameters as     *)
(* they were at the end of training of the last epoch that saved, whose    *)
(* validation loss is valid_loss_min; validation leaves the parameters as  *)
(* training left them.                                                     *)
(***************************************************************************)
C9_CheckpointIsLastSavedEpoch ==
    fn = "optimize" =>
        /\ (pc \in {"valid_enter", "valid", "ckpt", "sched"} => params = train_end)
        /\ (saves >= 1 =>
              /\ saved_epoch \in 1..epoch
              /\ ckpt = saved_train_end
              /\ valid_loss_min = saved_loss)

\* optimize has returned, the last epoch did not save and the file holds
\* other parameters than the model.
C9_Witness ==
    /\ fn = "optimize" /\ pc = "done" /\ saved_epoch < n_epochs
    /\ saved_epoch >= 1 /\ ckpt # params

(***************************************************************************)
(* C10.  With finite validation losses optimize never raises: it runs all  *)
(* n_epochs epochs and returns.                                            *)
(***************************************************************************)
C10_NoRaiseOnFiniteLosses ==
    (fn = "optimize" /\ (min_seen = None \/ IsFin(min_seen)))
        => /\ pc # "raised"
           /\ (pc = "done" => epoch = n_epochs)

=============================================================================
